---- MODULE Spec2Model ----
(***************************************************************************)
(* Model of generate_clifford_data.py: the stand-alone script that builds  *)
(* the integer lookup tables of the 1-qubit and 2-qubit Clifford groups.   *)
(*                                                                         *)
(* A Clifford is its stabilizer tableau, a flat tuple of bits (row-major): *)
(*   1 qubit : 2 rows x 3 columns  (x, z, phase)                           *)
(*   2 qubits: 4 rows x 5 columns  (x0, x1, z0, z1, phase)                 *)
(* Row r is the image of the r-th generator (X_0.., Z_0..) under the       *)
(* Clifford.  The 1-qubit group is modelled exactly (24 elements, with     *)
(* phases).  The 2-qubit group has 11520 elements; it is modelled modulo   *)
(* the Pauli group (phase column always 0), which leaves the 720           *)
(* symplectic classes and keeps every generator label of the script.       *)
(***************************************************************************)
EXTENDS Integers, Sequences, FiniteSets, TLC

VARIABLES
  mode,                       \* "main": run as a script; "import": imported, one function called
  pc,                         \* position in the script
  enum1, enum2,               \* which enumerator CliffordUtils supplies (0 = the sound one)
  _CLIFF_1Q, _TO_INT_1Q,      \* line 59, line 60
  _CLIFF_2Q, _TO_INT_2Q,      \* line 83, line 84
  _CLIFF_SINGLE_GATE_MAP_1Q,  \* published constants imported at lines 42-46
  _CLIFF_SINGLE_GATE_MAP_2Q,
  called,                     \* the function called most recently
  ret,                        \* result of the latest function call
  files,                      \* artifacts written so far: file name -> table
  events                      \* history of the main block's steps

vars == <<mode, pc, enum1, enum2, _CLIFF_1Q, _TO_INT_1Q, _CLIFF_2Q, _TO_INT_2Q,
          _CLIFF_SINGLE_GATE_MAP_1Q, _CLIFF_SINGLE_GATE_MAP_2Q, called, ret, files, events>>

(***************************************************************************)
(* Bounds of the model.                                                    *)
(***************************************************************************)
\* number of unsound enumerators tried beside the sound one
NumBrokenEnum == 1
\* number of stale published generator maps tried beside the current one
NumStalePub == 1

(***************************************************************************)
(* Group sizes.                                                            *)
(***************************************************************************)
NUM_CLIFFORD_1Q == 24
\* 11520 in the program; 720 = 11520 / 16 classes modulo the 2-qubit Pauli group
NUM_CLIFFORD_2Q == 36 + 324 + 324 + 36

Xor(a, b) == (a + b) % 2

(***************************************************************************)
(* The group algebra (qiskit's Clifford): compose and adjoint.             *)
(***************************************************************************)
Id1 == <<1,0,0, 0,1,0>>
Id2 == <<1,0,0,0,0, 0,1,0,0,0, 0,0,1,0,0, 0,0,0,1,0>>

\* 1 if the single-qubit Paulis P, Q (as <<x, z>>) are (X,Y), (Y,Z) or (Z,X)
Cyclic(P, Q) ==
  IF <<P, Q>> \in { <<<<1,0>>, <<1,1>>>>, <<<<1,1>>, <<0,1>>>>, <<<<0,1>>, <<1,0>>>> }
  THEN 1 ELSE 0

\* image under the 1-qubit Clifford B of the signed Pauli (x, z, p); Y = iXZ
Image1(B, x, z, p) ==
  IF x = 1 /\ z = 0 THEN <<B[1], B[2], Xor(p, B[3])>>
  ELSE IF x = 0 /\ z = 1 THEN <<B[4], B[5], Xor(p, B[6])>>
  ELSE <<Xor(B[1], B[4]), Xor(B[2], B[5]),
         Xor(Xor(p, Cyclic(<<B[1], B[2]>>, <<B[4], B[5]>>)), Xor(B[3], B[6]))>>

\* A followed by B, 1 qubit
compose1(A, B) == Image1(B, A[1], A[2], A[3]) \o Image1(B, A[4], A[5], A[6])

\* A followed by B, 2 qubits modulo Pauli: the product of the symplectic matrices
compose2(A, B) ==
  LET bit(r, c) == ( A[5*r+1] * B[c] + A[5*r+2] * B[5+c]
                   + A[5*r+3] * B[10+c] + A[5*r+4] * B[15+c] ) % 2
  IN << bit(0,1), bit(0,2), bit(0,3), bit(0,4), 0,
        bit(1,1), bit(1,2), bit(1,3), bit(1,4), 0,
        bit(2,1), bit(2,2), bit(2,3), bit(2,4), 0,
        bit(3,1), bit(3,2), bit(3,3), bit(3,4), 0 >>

compose(A, B) == IF Len(A) = 6 THEN compose1(A, B) ELSE compose2(A, B)

\* the 24 valid 1-qubit tableaux: the two rows anticommute
Tableaux1 ==
  { t \in [1..6 -> {0, 1}] : (t[1] * t[5] + t[2] * t[4]) % 2 = 1 }

adjoint1(A) == CHOOSE U \in Tableaux1 : compose1(A, U) = Id1

\* inverse of a symplectic matrix M: Omega M^T Omega
adjoint2(A) ==
  LET sw(k) == IF k < 2 THEN k + 2 ELSE k - 2
      bit(r, c) == A[5 * sw(c) + sw(r) + 1]
  IN << bit(0,0), bit(0,1), bit(0,2), bit(0,3), 0,
        bit(1,0), bit(1,1), bit(1,2), bit(1,3), 0,
        bit(2,0), bit(2,1), bit(2,2), bit(2,3), 0,
        bit(3,0), bit(3,1), bit(3,2), bit(3,3), 0 >>

adjoint(A) == IF Len(A) = 6 THEN adjoint1(A) ELSE adjoint2(A)

(***************************************************************************)
(* Clifford(qc) of a circuit holding one gate.                             *)
(***************************************************************************)
Gate1Q(name) ==
  CASE name = "id"   -> <<1,0,0, 0,1,0>>
    [] name = "h"    -> <<0,1,0, 1,0,0>>
    [] name = "sxdg" -> <<1,0,0, 1,1,0>>
    [] name = "s"    -> <<1,1,0, 0,1,0>>
    [] name = "x"    -> <<1,0,0, 0,1,1>>
    [] name = "sx"   -> <<1,0,0, 1,1,1>>
    [] name = "y"    -> <<1,0,1, 0,1,1>>
    [] name = "z"    -> <<1,0,1, 0,1,0>>
    [] name = "sdg"  -> <<1,1,1, 0,1,0>>

Gate2Q(name, qubits) ==
  CASE name \in {"id", "x", "y", "z"} -> Id2
    [] name = "h" /\ qubits = <<0>>   -> <<0,0,1,0,0, 0,1,0,0,0, 1,0,0,0,0, 0,0,0,1,0>>
    [] name = "h" /\ qubits = <<1>>   -> <<1,0,0,0,0, 0,0,0,1,0, 0,0,1,0,0, 0,1,0,0,0>>
    [] name \in {"s", "sdg"} /\ qubits = <<0>>
                                      -> <<1,0,1,0,0, 0,1,0,0,0, 0,0,1,0,0, 0,0,0,1,0>>
    [] name \in {"s", "sdg"} /\ qubits = <<1>>
                                      -> <<1,0,0,0,0, 0,1,0,1,0, 0,0,1,0,0, 0,0,0,1,0>>
    [] name \in {"sx", "sxdg"} /\ qubits = <<0>>
                                      -> <<1,0,0,0,0, 0,1,0,0,0, 1,0,1,0,0, 0,0,0,1,0>>
    [] name \in {"sx", "sxdg"} /\ qubits = <<1>>
                                      -> <<1,0,0,0,0, 0,1,0,0,0, 0,0,1,0,0, 0,1,0,1,0>>
    [] name = "cx" /\ qubits = <<0, 1>> -> <<1,1,0,0,0, 0,1,0,0,0, 0,0,1,0,0, 0,0,1,1,0>>
    [] name = "cx" /\ qubits = <<1, 0>> -> <<1,0,0,0,0, 1,1,0,0,0, 0,0,1,1,0, 0,0,0,1,0>>
    [] name = "cz"                    -> <<1,0,0,1,0, 0,1,1,0,0, 0,0,1,0,0, 0,0,0,1,0>>

\* Clifford of a circuit: its gates composed in order
RECURSIVE Circuit(_, _)
Circuit(identity, gates) ==
  IF gates = <<>> THEN identity
  ELSE compose(Circuit(identity, SubSeq(gates, 1, Len(gates) - 1)), gates[Len(gates)])

If(c, g) == IF c THEN <<g>> ELSE <<>>

(***************************************************************************)
(* CliffordUtils.clifford_1_qubit / clifford_2_qubit: the enumerators.     *)
(***************************************************************************)
clifford_1_qubit(num) ==
  LET i == num % 2
      j == (num \div 2) % 3
      p == (num \div 6) % 4
  IN Circuit(Id1, If(i = 1, Gate1Q("h")) \o If(j = 1, Gate1Q("sxdg")) \o If(j = 2, Gate1Q("s"))
                \o If(p = 1, Gate1Q("x")) \o If(p = 2, Gate1Q("y")) \o If(p = 3, Gate1Q("z")))

clifford_2_qubit(num) ==
  LET form == IF num < 36 THEN 0 ELSE IF num < 360 THEN 1 ELSE IF num < 684 THEN 2 ELSE 3
      n == IF form = 0 THEN num ELSE IF form = 1 THEN num - 36
           ELSE IF form = 2 THEN num - 360 ELSE num - 684
      i0 == n % 2
      i1 == (n \div 2) % 2
      j0 == (n \div 4) % 3
      j1 == (n \div 12) % 3
      k0 == (n \div 36) % 3
      k1 == (n \div 108) % 3
      G(name, q) == Gate2Q(name, <<q>>)
  IN Circuit(Id2,
        If(i0 = 1, G("h", 0)) \o If(i1 = 1, G("h", 1))
     \o If(j0 = 1, G("sxdg", 0)) \o If(j0 = 2, G("s", 0))
     \o If(j1 = 1, G("sxdg", 1)) \o If(j1 = 2, G("s", 1))
     \o If(form \in {1, 2, 3}, Gate2Q("cx", <<0, 1>>))
     \o If(form \in {2, 3}, Gate2Q("cx", <<1, 0>>))
     \o If(form = 3, Gate2Q("cx", <<0, 1>>))
     \o If(form \in {1, 2} /\ k0 = 1, G("sdg", 0)) \o If(form \in {1, 2} /\ k0 = 1, G("h", 0))
     \o If(form \in {1, 2} /\ k0 = 2, G("h", 0)) \o If(form \in {1, 2} /\ k0 = 2, G("s", 0))
     \o If(form \in {1, 2} /\ k1 = 1, G("sdg", 1)) \o If(form \in {1, 2} /\ k1 = 1, G("h", 1))
     \o If(form \in {1, 2} /\ k1 = 2, G("h", 1)) \o If(form \in {1, 2} /\ k1 = 2, G("s", 1)))

\* The enumerator the collaborator supplies.  Variant 0 covers the group exactly
\* once; variant b > 0 is unsound: index N - b repeats the element of index b - 1.
element_at_1q(b, i) ==
  IF b > 0 /\ i = NUM_CLIFFORD_1Q - b THEN clifford_1_qubit(b - 1) ELSE clifford_1_qubit(i)

element_at_2q(b, i) ==
  IF b > 0 /\ i = NUM_CLIFFORD_2Q - b THEN clifford_2_qubit(b - 1) ELSE clifford_2_qubit(i)

(***************************************************************************)
(* _hash_cliff: np.packbits(cliff.tableau).tobytes()                       *)
(***************************************************************************)
\* byte b (from 0) of the flattened bits, most significant bit first, zero padded
PackByte(t, b) ==
  LET bit(k) == IF 8 * b + k <= Len(t) THEN t[8 * b + k] ELSE 0
  IN 128 * bit(1) + 64 * bit(2) + 32 * bit(3) + 16 * bit(4)
     + 8 * bit(5) + 4 * bit(6) + 2 * bit(7) + bit(8)

_hash_cliff(cliff) == [b \in 1..((Len(cliff) + 7) \div 8) |-> PackByte(cliff, b - 1)]

(***************************************************************************)
(* {_hash_cliff(cliff): i for i, cliff in C.items()}: a later index        *)
(* overwrites an earlier one under the same key.                           *)
(***************************************************************************)
RECURSIVE DictRange(_, _, _)
DictRange(C, lo, hi) ==
  IF lo = hi THEN (_hash_cliff(C[lo]) :> lo)
  ELSE LET mid == (lo + hi) \div 2
       IN DictRange(C, mid + 1, hi) @@ DictRange(C, lo, mid)

ToIntDict(C, n) == DictRange(C, 0, n - 1)

(***************************************************************************)
(* Results of a function call: a returned value or a raised exception.     *)
(***************************************************************************)
Return(v) == [raised |-> "", val |-> v]
Raise(e) == [raised |-> e, val |-> <<>>]
NoCall == [raised |-> "", val |-> <<>>]

Min(S) == CHOOSE x \in S : \A y \in S : x <= y

\* all(sorted(v) == np.arange(0, n)) for an array v of length n:
\* v sorted is 0, 1, .., n-1 exactly when the n entries of v take every value of 0..n-1
AllSortedIsArange(v, n) == { v[i] : i \in 0..(n - 1) } = 0..(n - 1)

(***************************************************************************)
(* gen_clifford_inverse_1q, lines 63-69; gen_clifford_inverse_2q, 87-93.   *)
(***************************************************************************)
\* faulty variant: the adjoint is left out
gen_clifford_inverse_no_adjoint(C, T, n) ==
  LET key(i) == _hash_cliff(C[i])
  IN IF \E i \in 0..(n - 1) : key(i) \notin DOMAIN T THEN Raise("KeyError")
     ELSE LET invs == [i \in 0..(n - 1) |-> T[key(i)]]
          IN IF AllSortedIsArange(invs, n) THEN Return(invs) ELSE Raise("AssertionError")

gen_clifford_inverse(C, T, n) ==
  LET key(i) == _hash_cliff(adjoint(C[i]))
  IN IF \E i \in 0..(n - 1) : key(i) \notin DOMAIN T THEN Raise("KeyError")
     ELSE LET invs == [i \in 0..(n - 1) |-> T[key(i)]]
          IN IF AllSortedIsArange(invs, n) THEN Return(invs) ELSE Raise("AssertionError")

gen_clifford_inverse_1q == gen_clifford_inverse(_CLIFF_1Q, _TO_INT_1Q, NUM_CLIFFORD_1Q)

gen_clifford_inverse_2q == gen_clifford_inverse(_CLIFF_2Q, _TO_INT_2Q, NUM_CLIFFORD_2Q)

(***************************************************************************)
(* gen_clifford_compose_1q, lines 72-80.  Row i is filled, then asserted,  *)
(* before row i + 1 is started: the first row that cannot be filled        *)
(* (KeyError) or is no permutation (AssertionError) ends the call.         *)
(***************************************************************************)
\* faulty variant: the assertion checks the range of the entries only
RowAssertion_range_only(row, n) == \A j \in 0..(n - 1) : row[j] \in 0..(n - 1)

RowAssertion(row, n) == AllSortedIsArange(row, n)

\* faulty variant: the operands of the composition are exchanged
gen_clifford_compose_1q_swapped ==
  LET n == NUM_CLIFFORD_1Q
      key(i, j) == _hash_cliff(compose(_CLIFF_1Q[j], _CLIFF_1Q[i]))
      unfilled(i) == \E j \in 0..(n - 1) : key(i, j) \notin DOMAIN _TO_INT_1Q
      row(i) == [j \in 0..(n - 1) |-> _TO_INT_1Q[key(i, j)]]
      bad == { i \in 0..(n - 1) : unfilled(i) \/ ~RowAssertion(row(i), n) }
  IN IF bad = {} THEN Return([i \in 0..(n - 1) |-> row(i)])
     ELSE IF unfilled(Min(bad)) THEN Raise("KeyError") ELSE Raise("AssertionError")

gen_clifford_compose_1q ==
  LET n == NUM_CLIFFORD_1Q
      key(i, j) == _hash_cliff(compose(_CLIFF_1Q[i], _CLIFF_1Q[j]))
      unfilled(i) == \E j \in 0..(n - 1) : key(i, j) \notin DOMAIN _TO_INT_1Q
      row(i) == [j \in 0..(n - 1) |-> _TO_INT_1Q[key(i, j)]]
      bad == { i \in 0..(n - 1) : unfilled(i) \/ ~RowAssertion(row(i), n) }
  IN IF bad = {} THEN Return([i \in 0..(n - 1) |-> row(i)])
     ELSE IF unfilled(Min(bad)) THEN Raise("KeyError") ELSE Raise("AssertionError")

(***************************************************************************)
(* _GATE_LIST_1Q, lines 115-125, by gate.name; gate_list_2q, 154-157.      *)
(***************************************************************************)
_GATE_LIST_1Q == <<"id", "h", "sxdg", "s", "x", "sx", "y", "z", "sdg">>
gate_list_2q == <<"cx", "cz">>

Range(f) == { f[k] : k \in DOMAIN f }

(***************************************************************************)
(* gen_cliff_single_1q_gate_map, lines 128-143.                            *)
(***************************************************************************)
gen_cliff_single_1q_gate_map ==
  LET labels == { <<g, <<0>>>> : g \in Range(_GATE_LIST_1Q) }
      key(l) == _hash_cliff(Gate1Q(l[1]))
  IN IF \E l \in labels : key(l) \notin DOMAIN _TO_INT_1Q THEN Raise("KeyError")
     ELSE Return([l \in labels |-> _TO_INT_1Q[key(l)]])

(***************************************************************************)
(* gen_cliff_single_2q_gate_map, lines 146-171.                            *)
(***************************************************************************)
\* faulty variant: the qubits of a two-qubit gate are recorded in sorted order
gen_cliff_single_2q_gate_map_sorted ==
  LET labels == { <<g, <<q>>>> : g \in Range(_GATE_LIST_1Q), q \in {0, 1} }
                \cup { <<g, <<0, 1>>>> : g \in Range(gate_list_2q) }
      key(l) == _hash_cliff(Gate2Q(l[1], l[2]))
  IN IF \E l \in labels : key(l) \notin DOMAIN _TO_INT_2Q THEN Raise("KeyError")
     ELSE Return([l \in labels |-> _TO_INT_2Q[key(l)]])

gen_cliff_single_2q_gate_map ==
  LET labels == { <<g, <<q>>>> : g \in Range(_GATE_LIST_1Q), q \in {0, 1} }
                \cup { <<g, qs>> : g \in Range(gate_list_2q), qs \in {<<0, 1>>, <<1, 0>>} }
      key(l) == _hash_cliff(Gate2Q(l[1], l[2]))
  IN IF \E l \in labels : key(l) \notin DOMAIN _TO_INT_2Q THEN Raise("KeyError")
     ELSE Return([l \in labels |-> _TO_INT_2Q[key(l)]])

(***************************************************************************)
(* scipy.sparse.lil_matrix / csr_matrix: row i holds its stored entries, a *)
(* function from the stored column indices to their values.  Assigning the *)
(* scalar 0 to an element stores nothing; reading a position that is not   *)
(* stored gives 0.                                                         *)
(***************************************************************************)
lil_stores(x) == x # 0

csr_get(M, i, j) == IF j \in DOMAIN M[i] THEN M[i][j] ELSE 0

\* faulty variant: the right-hand operands are taken from the rebuilt map
rhs_from_rebuilt_map ==
  LET rebuilt == gen_cliff_single_2q_gate_map
  IN IF rebuilt.raised # "" THEN {} ELSE Range(rebuilt.val)

\* the right-hand operands of the sparse table: _CLIFF_SINGLE_GATE_MAP_2Q.values()
rhs_of_compose_2q == { _CLIFF_SINGLE_GATE_MAP_2Q[l] : l \in DOMAIN _CLIFF_SINGLE_GATE_MAP_2Q }

(***************************************************************************)
(* gen_clifford_compose_2q_gate, lines 96-112.                             *)
(***************************************************************************)
\* faulty variant: the operands of the composition are exchanged
gen_clifford_compose_2q_gate_swapped ==
  LET n == NUM_CLIFFORD_2Q
      cols == rhs_of_compose_2q
      \* _TO_INT_2Q[_hash_cliff(composed)] of every cell, -1 where it raises KeyError
      looked_up ==
        [lhs \in 0..(n - 1) |->
           [rhs \in cols |->
              LET k == _hash_cliff(compose(_CLIFF_2Q[rhs], _CLIFF_2Q[lhs]))
              IN IF k \in DOMAIN _TO_INT_2Q THEN _TO_INT_2Q[k] ELSE -1] @@ <<>>] @@ <<>>
  IN IF \E rhs \in cols : rhs \notin DOMAIN _CLIFF_2Q THEN Raise("KeyError")
     ELSE IF \E lhs \in 0..(n - 1) : \E rhs \in cols : looked_up[lhs][rhs] = -1
          THEN Raise("KeyError")
     ELSE Return([lhs \in 0..(n - 1) |->
                    [rhs \in { g \in cols : lil_stores(looked_up[lhs][g]) } |->
                       looked_up[lhs][rhs]]])

gen_clifford_compose_2q_gate ==
  LET n == NUM_CLIFFORD_2Q
      cols == rhs_of_compose_2q
      \* _TO_INT_2Q[_hash_cliff(composed)] of every cell, -1 where it raises KeyError
      looked_up ==
        [lhs \in 0..(n - 1) |->
           [rhs \in cols |->
              LET k == _hash_cliff(compose(_CLIFF_2Q[lhs], _CLIFF_2Q[rhs]))
              IN IF k \in DOMAIN _TO_INT_2Q THEN _TO_INT_2Q[k] ELSE -1] @@ <<>>] @@ <<>>
  IN IF \E rhs \in cols : rhs \notin DOMAIN _CLIFF_2Q THEN Raise("KeyError")
     ELSE IF \E lhs \in 0..(n - 1) : \E rhs \in cols : looked_up[lhs][rhs] = -1
          THEN Raise("KeyError")
     ELSE Return([lhs \in 0..(n - 1) |->
                    [rhs \in { g \in cols : lil_stores(looked_up[lhs][g]) } |->
                       looked_up[lhs][rhs]]])

(***************************************************************************)
(* The published generator maps of clifford_utils, imported at lines 42-46.*)
(* Variant 0 is the map that agrees with the sound enumerator; variant     *)
(* s > 0 is stale: the index of its s-th label has shifted.                *)
(***************************************************************************)
Labels1Q == [k \in 1..Len(_GATE_LIST_1Q) |-> <<_GATE_LIST_1Q[k], <<0>>>>]

Labels2Q ==
  [k \in 1..(2 * Len(_GATE_LIST_1Q)) |-> <<_GATE_LIST_1Q[(k + 1) \div 2], <<(k + 1) % 2>>>>]
  \o << <<"cx", <<0, 1>>>>, <<"cx", <<1, 0>>>>, <<"cz", <<0, 1>>>>, <<"cz", <<1, 0>>>> >>

Published1Q ==
  ( <<"id", <<0>>>> :> 0 @@ <<"h", <<0>>>> :> 1 @@ <<"sxdg", <<0>>>> :> 2 @@
    <<"s", <<0>>>> :> 4 @@ <<"x", <<0>>>> :> 6 @@ <<"sx", <<0>>>> :> 8 @@
    <<"y", <<0>>>> :> 12 @@ <<"z", <<0>>>> :> 18 @@ <<"sdg", <<0>>>> :> 22 )

Published2Q ==
  ( <<"id", <<0>>>> :> 0 @@ <<"id", <<1>>>> :> 0 @@ <<"h", <<0>>>> :> 1 @@ <<"h", <<1>>>> :> 2 @@
    <<"sxdg", <<0>>>> :> 4 @@ <<"sxdg", <<1>>>> :> 12 @@ <<"s", <<0>>>> :> 8 @@
    <<"s", <<1>>>> :> 24 @@ <<"x", <<0>>>> :> 0 @@ <<"x", <<1>>>> :> 0 @@
    <<"sx", <<0>>>> :> 4 @@ <<"sx", <<1>>>> :> 12 @@ <<"y", <<0>>>> :> 0 @@
    <<"y", <<1>>>> :> 0 @@ <<"z", <<0>>>> :> 0 @@ <<"z", <<1>>>> :> 0 @@
    <<"sdg", <<0>>>> :> 8 @@ <<"sdg", <<1>>>> :> 24 @@
    <<"cx", <<0, 1>>>> :> 36 @@ <<"cx", <<1, 0>>>> :> 311 @@
    <<"cz", <<0, 1>>>> :> 266 @@ <<"cz", <<1, 0>>>> :> 266 )

StalePub(m, labels, s, n) ==
  IF s = 0 THEN m ELSE [m EXCEPT ![labels[s]] = (@ + 7 * s) % n]

(***************************************************************************)
(* The state machine.                                                      *)
(***************************************************************************)
\* the inputs of one group: the enumerator variant and the published-map variant,
\* at most one of them deviating
Faults ==
  { f \in (0..NumBrokenEnum) \X (0..NumStalePub) : f[1] = 0 \/ f[2] = 0 }

Init ==
  /\ mode \in {"main", "import"}
  /\ pc = "line59"
  /\ \E f \in Faults :
       /\ enum1 = f[1]
       /\ _CLIFF_SINGLE_GATE_MAP_1Q = StalePub(Published1Q, Labels1Q, f[2], NUM_CLIFFORD_1Q)
  /\ \E f \in Faults :
       /\ enum2 = f[1]
       /\ _CLIFF_SINGLE_GATE_MAP_2Q = StalePub(Published2Q, Labels2Q, f[2], NUM_CLIFFORD_2Q)
  /\ _CLIFF_1Q = <<>>
  /\ _TO_INT_1Q = <<>>
  /\ _CLIFF_2Q = <<>>
  /\ _TO_INT_2Q = <<>>
  /\ called = ""
  /\ ret = NoCall
  /\ files = <<>>
  /\ events = <<>>

inputs == <<mode, enum1, enum2, _CLIFF_SINGLE_GATE_MAP_1Q, _CLIFF_SINGLE_GATE_MAP_2Q>>
tables1 == <<_CLIFF_1Q, _TO_INT_1Q>>
tables2 == <<_CLIFF_2Q, _TO_INT_2Q>>

\* line 59: _CLIFF_1Q = {i: CliffordUtils.clifford_1_qubit(i) for i in range(NUM_CLIFFORD_1Q)}
Line59 ==
  /\ pc = "line59"
  /\ _CLIFF_1Q' = [i \in 0..(NUM_CLIFFORD_1Q - 1) |-> element_at_1q(enum1, i)]
  /\ pc' = "line60"
  /\ UNCHANGED <<inputs, _TO_INT_1Q, tables2, called, ret, files, events>>

\* line 60: _TO_INT_1Q = {_hash_cliff(cliff): i for i, cliff in _CLIFF_1Q.items()}
Line60 ==
  /\ pc = "line60"
  /\ _TO_INT_1Q' = ToIntDict(_CLIFF_1Q, NUM_CLIFFORD_1Q)
  /\ pc' = "line83"
  /\ UNCHANGED <<inputs, _CLIFF_1Q, tables2, called, ret, files, events>>

\* line 83
Line83 ==
  /\ pc = "line83"
  /\ _CLIFF_2Q' = [i \in 0..(NUM_CLIFFORD_2Q - 1) |-> element_at_2q(enum2, i)]
  /\ pc' = "line84"
  /\ UNCHANGED <<inputs, tables1, _TO_INT_2Q, called, ret, files, events>>

\* line 84; then the main block if run as a script (line 174)
Line84 ==
  /\ pc = "line84"
  /\ _TO_INT_2Q' = ToIntDict(_CLIFF_2Q, NUM_CLIFFORD_2Q)
  /\ pc' = IF mode = "main" THEN "line175" ELSE "imported"
  /\ UNCHANGED <<inputs, tables1, _CLIFF_2Q, called, ret, files, events>>

\* lines 175-178 and 182-185: compare the published map with the rebuilt one
CompareStep(line, fname, rebuilt, published, next) ==
  /\ pc = line
  /\ ret' = IF rebuilt.raised # "" THEN rebuilt
            ELSE IF published # rebuilt.val THEN Raise("Exception") ELSE rebuilt
  /\ pc' = IF ret'.raised # "" THEN "aborted" ELSE next
  /\ called' = fname
  /\ events' = events \o <<fname>> \o (IF ret'.raised # "" THEN <<"raise">> ELSE <<"compare ok">>)
  /\ UNCHANGED <<inputs, tables1, tables2, files>>

\* lines 179, 180, 186, 187: write the table a generator function returns
WriteStep(line, fname, table, file, next) ==
  /\ pc = line
  /\ ret' = table
  /\ pc' = IF table.raised # "" THEN "aborted" ELSE next
  /\ files' = IF table.raised # "" THEN files ELSE (file :> table.val) @@ files
  /\ called' = fname
  /\ events' = events \o <<fname>> \o (IF table.raised # "" THEN <<"raise">> ELSE <<file>>)
  /\ UNCHANGED <<inputs, tables1, tables2>>

Main175 ==
  CompareStep("line175", "gen_cliff_single_1q_gate_map", gen_cliff_single_1q_gate_map,
              _CLIFF_SINGLE_GATE_MAP_1Q, "line179")

Main179 ==
  WriteStep("line179", "gen_clifford_inverse_1q", gen_clifford_inverse_1q,
            "clifford_inverse_1q.npz", "line180")

Main180 ==
  WriteStep("line180", "gen_clifford_compose_1q", gen_clifford_compose_1q,
            "clifford_compose_1q.npz", "line182")

\* faulty variant: the comparison of the 2-qubit maps is left out
Main182_unchecked ==
  /\ pc = "line182"
  /\ pc' = "line186"
  /\ UNCHANGED <<inputs, tables1, tables2, called, ret, files, events>>

Main182 ==
  CompareStep("line182", "gen_cliff_single_2q_gate_map", gen_cliff_single_2q_gate_map,
              _CLIFF_SINGLE_GATE_MAP_2Q, "line186")

Main186 ==
  WriteStep("line186", "gen_clifford_inverse_2q", gen_clifford_inverse_2q,
            "clifford_inverse_2q.npz", "line187")

Main187 ==
  WriteStep("line187", "gen_clifford_compose_2q_gate", gen_clifford_compose_2q_gate,
            "clifford_compose_2q_sparse.npz", "exit")

\* the module imported: a caller calls one of its functions
Call(fname, result) ==
  /\ pc = "imported"
  /\ called' = fname
  /\ ret' = result
  /\ pc' = "returned"
  /\ UNCHANGED <<inputs, tables1, tables2, files, events>>

Call_gen_clifford_inverse_1q == Call("gen_clifford_inverse_1q", gen_clifford_inverse_1q)
Call_gen_clifford_compose_1q == Call("gen_clifford_compose_1q", gen_clifford_compose_1q)
Call_gen_clifford_inverse_2q == Call("gen_clifford_inverse_2q", gen_clifford_inverse_2q)
Call_gen_clifford_compose_2q_gate ==
  Call("gen_clifford_compose_2q_gate", gen_clifford_compose_2q_gate)
Call_gen_cliff_single_1q_gate_map ==
  Call("gen_cliff_single_1q_gate_map", gen_cliff_single_1q_gate_map)
Call_gen_cliff_single_2q_gate_map ==
  Call("gen_cliff_single_2q_gate_map", gen_cliff_single_2q_gate_map)

Next ==
  \/ Line59 \/ Line60 \/ Line83 \/ Line84
  \/ Main175 \/ Main179 \/ Main180 \/ Main182 \/ Main186 \/ Main187
  \/ Call_gen_clifford_inverse_1q \/ Call_gen_clifford_compose_1q
  \/ Call_gen_clifford_inverse_2q \/ Call_gen_clifford_compose_2q_gate
  \/ Call_gen_cliff_single_1q_gate_map \/ Call_gen_cliff_single_2q_gate_map

Spec == Init /\ [][Next]_vars

(***************************************************************************)
(* Properties.                                                             *)
(***************************************************************************)
N1 == 0..(NUM_CLIFFORD_1Q - 1)
N2 == 0..(NUM_CLIFFORD_2Q - 1)

Returned(fname) == called = fname /\ ret.raised = ""

\* the index the enumeration index resolves an element to: the last index holding it
IndexOf(C, elem) == CHOOSE k \in DOMAIN C : C[k] = elem /\ \A m \in DOMAIN C : C[m] = elem => m <= k

Holds(C, elem) == \E k \in DOMAIN C : C[k] = elem

IsPermutation(row, n) == \A v \in 0..(n - 1) : Cardinality({ j \in 0..(n - 1) : row[j] = v }) = 1

Collides(C, n) == Cardinality({ _hash_cliff(C[i]) : i \in 0..(n - 1) }) < n

Happened(e) == \E k \in 1..Len(events) : events[k] = e

\* C1: the table gen_clifford_compose_1q returns has 24 rows of 24 columns, and its
\* entry (i, j) is the index of the element element_i composed with element_j.
C1_ComposeTable1Q ==
  Returned("gen_clifford_compose_1q") =>
    /\ DOMAIN ret.val = N1
    /\ \A i \in N1 : DOMAIN ret.val[i] = N1
    /\ \A i \in N1 : \A j \in N1 :
         /\ ret.val[i][j] \in N1
         /\ _CLIFF_1Q[ret.val[i][j]] = compose(_CLIFF_1Q[i], _CLIFF_1Q[j])

\* a table was returned, and the group is not commutative in it
C1_Witness ==
  /\ Returned("gen_clifford_compose_1q")
  /\ \E i \in N1 : \E j \in N1 : ret.val[i][j] # ret.val[j][i]

\* C2: every row of the returned 1-qubit composition table is a permutation of
\* 0..23, and a call whose first row that is not one could be filled ends with an
\* AssertionError instead of a table.
C2_RowsArePermutations ==
  called = "gen_clifford_compose_1q" =>
    LET fillable(i) == \A j \in N1 : Holds(_CLIFF_1Q, compose(_CLIFF_1Q[i], _CLIFF_1Q[j]))
        row(i) == [j \in N1 |-> IndexOf(_CLIFF_1Q, compose(_CLIFF_1Q[i], _CLIFF_1Q[j]))]
        bad == { i \in N1 : ~fillable(i) \/ ~IsPermutation(row(i), NUM_CLIFFORD_1Q) }
    IN /\ ret.raised = "" => \A i \in N1 : IsPermutation(ret.val[i], NUM_CLIFFORD_1Q)
       /\ (bad # {} /\ fillable(Min(bad))) => ret.raised = "AssertionError"

\* a row with a repeated index was met, and the call ended with the assertion
C2_Witness ==
  /\ called = "gen_clifford_compose_1q"
  /\ ret.raised = "AssertionError"
  /\ \E j \in N1 : \E k \in N1 :
       j # k /\ compose(_CLIFF_1Q[0], _CLIFF_1Q[j]) = compose(_CLIFF_1Q[0], _CLIFF_1Q[k])

\* C3: the returned 1-qubit inverse table is a bijection on 0..23, and the tables the
\* main block writes agree: composing i with its listed inverse gives the identity
\* index, and the identity index is a left and a right identity of the table.
C3_InverseConsistent ==
  /\ Returned("gen_clifford_inverse_1q") =>
       /\ DOMAIN ret.val = N1
       /\ IsPermutation(ret.val, NUM_CLIFFORD_1Q)
  /\ {"clifford_inverse_1q.npz", "clifford_compose_1q.npz"} \subseteq DOMAIN files =>
       LET inverse_table == files["clifford_inverse_1q.npz"]
           compose_table == files["clifford_compose_1q.npz"]
           identity == IndexOf(_CLIFF_1Q, Id1)
       IN /\ IsPermutation(inverse_table, NUM_CLIFFORD_1Q)
          /\ \A i \in N1 : compose_table[i][inverse_table[i]] = identity
          /\ \A j \in N1 : compose_table[identity][j] = j /\ compose_table[j][identity] = j

\* both tables are written, and some element is not its own inverse
C3_Witness ==
  /\ {"clifford_inverse_1q.npz", "clifford_compose_1q.npz"} \subseteq DOMAIN files
  /\ \E i \in N1 : files["clifford_inverse_1q.npz"][i] # i

\* C4 (as claimed): once an enumeration index is built, no two indices of its
\* enumeration had the same canonical key: a collision stops the construction.
C4_CollisionIsFatal ==
  /\ DOMAIN _TO_INT_1Q # {} => ~Collides(_CLIFF_1Q, NUM_CLIFFORD_1Q)
  /\ DOMAIN _TO_INT_2Q # {} => ~Collides(_CLIFF_2Q, NUM_CLIFFORD_2Q)

\* C5: in a run of the main block the 2-qubit maps are compared, and found equal,
\* before gen_clifford_compose_2q_gate is called; if they differ the run ends with
\* an exception, and the sparse table is neither generated nor written.
C5_CompareBeforeSparse ==
  mode = "main" =>
    LET rebuilt == gen_cliff_single_2q_gate_map
    IN /\ \A k \in 1..Len(events) :
            events[k] = "gen_clifford_compose_2q_gate" =>
              /\ \E j \in 1..(k - 2) :
                   events[j] = "gen_cliff_single_2q_gate_map" /\ events[j + 1] = "compare ok"
              /\ rebuilt.raised = ""
              /\ _CLIFF_SINGLE_GATE_MAP_2Q = rebuilt.val
       /\ ( /\ Happened("gen_cliff_single_2q_gate_map")
            /\ rebuilt.raised = ""
            /\ _CLIFF_SINGLE_GATE_MAP_2Q # rebuilt.val )
          => /\ pc = "aborted"
             /\ ret = Raise("Exception")
             /\ ~Happened("gen_clifford_compose_2q_gate")
             /\ "clifford_compose_2q_sparse.npz" \notin DOMAIN files

\* the 2-qubit maps were compared and differed
C5_Witness ==
  /\ mode = "main"
  /\ called = "gen_cliff_single_2q_gate_map"
  /\ ret = Raise("Exception")
  /\ _CLIFF_SINGLE_GATE_MAP_2Q # gen_cliff_single_2q_gate_map.val

\* C6: reading position (i, g) of the returned sparse table, for every row i and
\* every value g of the generator map, gives an index of the group, the index of
\* element_i composed with element_g.
C6_SparseEntries ==
  Returned("gen_clifford_compose_2q_gate") =>
    /\ DOMAIN ret.val = N2
    /\ \A i \in N2 : \A g \in Range(_CLIFF_SINGLE_GATE_MAP_2Q) :
         LET entry == csr_get(ret.val, i, g)
         IN /\ entry \in N2
            /\ _CLIFF_2Q[entry] = compose(_CLIFF_2Q[i], _CLIFF_2Q[g])

\* a sparse table was returned; some entry of it is the product with a two-qubit gate
C6_Witness ==
  /\ Returned("gen_clifford_compose_2q_gate")
  /\ \E i \in N2 :
       LET g == _CLIFF_SINGLE_GATE_MAP_2Q[<<"cx", <<0, 1>>>>]
       IN csr_get(ret.val, i, g) \notin {0, i, g}

\* the populated columns of a sparse table
Populated(M) == UNION { DOMAIN M[i] : i \in DOMAIN M }

\* C7 (as claimed): the populated columns of the returned sparse table are those of
\* the map rebuilt by gen_cliff_single_2q_gate_map, whatever the published map is.
C7_ColumnsFromRebuiltMap ==
  Returned("gen_clifford_compose_2q_gate") =>
    Populated(ret.val) = Range(gen_cliff_single_2q_gate_map.val)

\* C7 (amended): the populated columns of the returned sparse table are the values
\* of the published map; in the main block that map equals the rebuilt one by the
\* time the table is generated.
C7_ColumnsFromPublishedMap ==
  Returned("gen_clifford_compose_2q_gate") =>
    /\ Populated(ret.val) = Range(_CLIFF_SINGLE_GATE_MAP_2Q)
    /\ mode = "main" => _CLIFF_SINGLE_GATE_MAP_2Q = gen_cliff_single_2q_gate_map.val

\* a table was generated from a published map that differs from the rebuilt one
C7_Witness ==
  /\ Returned("gen_clifford_compose_2q_gate")
  /\ Range(_CLIFF_SINGLE_GATE_MAP_2Q) # Range(gen_cliff_single_2q_gate_map.val)

\* C8 (as claimed): in a run of the main block a file is written only after all four
\* tables are computed and both maps validated, and an aborted run has written none.
C8_NoWriteBeforeCoreDone ==
  mode = "main" =>
    /\ DOMAIN files # {} =>
         /\ Happened("gen_clifford_inverse_1q") /\ Happened("gen_clifford_compose_1q")
         /\ Happened("gen_clifford_inverse_2q") /\ Happened("gen_clifford_compose_2q_gate")
         /\ Happened("gen_cliff_single_1q_gate_map") /\ Happened("gen_cliff_single_2q_gate_map")
         /\ ~Happened("raise")
    /\ pc = "aborted" => DOMAIN files = {}

\* C9: the returned generator maps have exactly the 9 one-qubit labels, resp. the
\* 22 two-qubit labels, and send each label to the index the enumeration resolves
\* the Clifford of that one gate to (so a rebuild from the same enumeration index
\* returns the same map).
C9_GateMaps ==
  /\ Returned("gen_cliff_single_1q_gate_map") =>
       /\ DOMAIN ret.val =
            { <<"id", <<0>>>>, <<"h", <<0>>>>, <<"sxdg", <<0>>>>, <<"s", <<0>>>>, <<"x", <<0>>>>,
              <<"sx", <<0>>>>, <<"y", <<0>>>>, <<"z", <<0>>>>, <<"sdg", <<0>>>> }
       /\ \A l \in DOMAIN ret.val : ret.val[l] = IndexOf(_CLIFF_1Q, Gate1Q(l[1]))
  /\ Returned("gen_cliff_single_2q_gate_map") =>
       /\ DOMAIN ret.val =
            { <<g, q>> : g \in {"id", "h", "sxdg", "s", "x", "sx", "y", "z", "sdg"},
                         q \in {<<0>>, <<1>>} }
            \cup { <<"cx", <<0, 1>>>>, <<"cx", <<1, 0>>>>, <<"cz", <<0, 1>>>>, <<"cz", <<1, 0>>>> }
       /\ Cardinality(DOMAIN ret.val) = 22
       /\ \A l \in DOMAIN ret.val : ret.val[l] = IndexOf(_CLIFF_2Q, Gate2Q(l[1], l[2]))

\* the 2-qubit map was returned, and cx on (0, 1) and on (1, 0) are different entries
C9_Witness ==
  /\ Returned("gen_cliff_single_2q_gate_map")
  /\ ret.val[<<"cx", <<0, 1>>>>] # ret.val[<<"cx", <<1, 0>>>>]

\* C10 (as claimed): the returned sparse table stores an entry for exactly the pairs
\* (i, g) with g a value of the generator map, whatever the index of the product.
C10_EveryGeneratorPairStored ==
  Returned("gen_clifford_compose_2q_gate") =>
    \A i \in N2 : DOMAIN ret.val[i] = Range(_CLIFF_SINGLE_GATE_MAP_2Q)

====
